---- MODULE Spec2Model ----
(***************************************************************************)
(* Model of src/main.py: ToDoListAssistant, a console to-do list whose     *)
(* commands are produced by a language-model chain (prompt | model |       *)
(* JsonOutputParser).  The chain is an external oracle: an invocation      *)
(* either raises OutputParserException, raises some other exception, or    *)
(* returns a parsed JSON value.  The session is the loop of run().         *)
(***************************************************************************)
EXTENDS Integers, Sequences, FiniteSets, TLC

(* ---------------------------------------------------------------------- *)
(* Bounds                                                                  *)
(* ---------------------------------------------------------------------- *)

\* number of loop iterations explored before only quit/exit is read
MaxTurns == 4

(* ---------------------------------------------------------------------- *)
(* Python values.  A value is a string, None, or (for a dict lookup) the  *)
(* absence of the key.                                                     *)
(* ---------------------------------------------------------------------- *)

PyNone == [t |-> "None", v |-> ""]
Absent == [t |-> "absent", v |-> ""]
Str(s) == [t |-> "str", v |-> s]

\* bool(x) for the values above
Truthy(x) == x.t = "str" /\ x.v # ""

\* x or y
PyOr(x, y) == IF Truthy(x) THEN x ELSE y

\* variant: d.get(k), which yields None for a missing key
GetWithoutDefault(d, k, default) == IF d[k] = Absent THEN PyNone ELSE d[k]

\* d.get(k, default) on a dict whose missing keys hold Absent
GetDefault(d, k, default) == IF d[k] = Absent THEN default ELSE d[k]

\* f"{x}"
Format(x) == IF x.t = "str" THEN x.v ELSE "None"

(* ---------------------------------------------------------------------- *)
(* Characters of the strings whose characters the code looks at: the      *)
(* input lines (str.lower) and the sort keys (string comparison).         *)
(* ---------------------------------------------------------------------- *)

Ord(s) ==
    CASE s = ""           -> << >>
      [] s = "z"          -> <<122>>
      [] s = "quit"       -> <<113, 117, 105, 116>>
      [] s = "exit"       -> <<101, 120, 105, 116>>
      [] s = "QUIT"       -> <<81, 85, 73, 84>>
      [] s = "Exit"       -> <<69, 120, 105, 116>>
      [] s = "quit "      -> <<113, 117, 105, 116, 32>>
      [] s = "Buy milk"   -> <<66, 117, 121, 32, 109, 105, 108, 107>>
      [] s = "2024-12-31" -> <<50, 48, 50, 52, 45, 49, 50, 45, 51, 49>>
      [] s = "2025-08-18" -> <<50, 48, 50, 53, 45, 48, 56, 45, 49, 56>>
      [] s = "2025-08-22" -> <<50, 48, 50, 53, 45, 48, 56, 45, 50, 50>>

\* str.lower() on the characters of a line
LowerChar(c) == IF c >= 65 /\ c <= 90 THEN c + 32 ELSE c
Lower(cs) == [i \in 1..Len(cs) |-> LowerChar(cs[i])]

\* s < t for Python strings: lexicographic on code points
RECURSIVE SeqLess(_, _)
SeqLess(a, b) ==
    IF b = << >> THEN FALSE
    ELSE IF a = << >> THEN TRUE
    ELSE IF a[1] # b[1] THEN a[1] < b[1]
    ELSE SeqLess(Tail(a), Tail(b))

StrLess(s, t) == SeqLess(Ord(s), Ord(t))

(* ---------------------------------------------------------------------- *)
(* Inputs                                                                  *)
(* ---------------------------------------------------------------------- *)

\* lines the console can deliver
Lines == {"quit", "exit", "QUIT", "Exit", "quit ", "Buy milk"}

Keys == {"description", "due_date", "priority", "message", "tags"}

EmptyDict == [k \in Keys |-> Absent]

Descriptions == {Absent, Str(""), Str("Pay bill")}
DueDates == {Absent, PyNone, Str("2024-12-31"), Str("2025-08-18")}
Priorities == {Absent, Str("high"), Str("urgent")}

\* parameter dicts the oracle can put in an add_task command
AddDicts ==
    { [EmptyDict EXCEPT !["description"] = Str("Pay bill"),
                        !["due_date"] = u] : u \in DueDates }
    \cup
    { [EmptyDict EXCEPT !["description"] = d] : d \in Descriptions }
    \cup
    { [EmptyDict EXCEPT !["description"] = Str("Pay bill"),
                        !["priority"] = p] : p \in Priorities }
    \cup
    { [EmptyDict EXCEPT !["description"] = d, !["tags"] = Str("home")] :
          d \in {Absent, Str("Pay bill")} }

MsgDicts ==
    { EmptyDict, [EmptyDict EXCEPT !["message"] = Str("Please rephrase.")] }

\* "parameters" of the parsed object: missing, a dict, or a non-dict value
NoParams == [t |-> "absent", d |-> EmptyDict]
ListParams == [t |-> "list", d |-> EmptyDict]
DictParams(d) == [t |-> "dict", d |-> d]

\* parsed oracle outputs: a JSON object, or a JSON value that is no object
NonObject == [t |-> "list", action |-> Absent, parameters |-> NoParams]
Object(a, p) == [t |-> "dict", action |-> a, parameters |-> p]

Commands ==
    { NonObject }
    \cup { Object(Str("add_task"), DictParams(d)) : d \in AddDicts }
    \cup { Object(Str("add_task"), p) : p \in {NoParams, ListParams} }
    \cup { Object(Str("list_tasks"), p) :
              p \in {NoParams, ListParams, DictParams(EmptyDict)} }
    \cup { Object(Str("error"), DictParams(d)) : d \in MsgDicts }
    \cup { Object(Str("error"), p) : p \in {NoParams, ListParams} }
    \cup { Object(a, p) : a \in {Absent, Str("delete_task")},
                          p \in {NoParams, DictParams(EmptyDict)} }

NoCommand == [t |-> "unset", action |-> Absent, parameters |-> NoParams]

(* ---------------------------------------------------------------------- *)
(* Console output of a turn                                                *)
(* ---------------------------------------------------------------------- *)

OutLine(kind, id, description, date_str, priority, text) ==
    [kind |-> kind, id |-> id, description |-> description,
     date_str |-> date_str, priority |-> priority, text |-> text]

Msg(kind, text) == OutLine(kind, 0, PyNone, "", PyNone, text)

(* ---------------------------------------------------------------------- *)
(* Exceptions                                                              *)
(* ---------------------------------------------------------------------- *)

Exc(type, msg) == [type |-> type, msg |-> msg]

OracleFailures ==
    { Exc("OutputParserException", "Invalid json output"),
      Exc("RateLimitError", "Error code: 429"),
      Exc("APITimeoutError", "Request timed out.") }

VARIABLES
    tasks,        \* self.tasks
    pc,           \* "input": blocked in input(); "invoke": blocked in
                  \* self.chain.invoke(); "done": loop left; "crashed"
    user_input,   \* the local user_input of run()
    user_text,    \* the user_input last handed to the chain
    cmd,          \* the local structured_command of run()
    out,          \* what the current turn has printed
    turns,        \* loop iterations started
    invocations,  \* chain invocations completed since the last input()
    listed,       \* what list_tasks printed when it last ran, << >> if it
                  \* has not run since the last add_task
    listings      \* runs of list_tasks since the last add_task

vars == <<tasks, pc, user_input, user_text, cmd, out, turns, invocations,
          listed, listings>>

Init ==
    /\ tasks = << >>
    /\ pc = "input"
    /\ user_input = ""
    /\ user_text = ""
    /\ cmd = NoCommand
    /\ out = << >>
    /\ turns = 0
    /\ invocations = 0
    /\ listed = << >>
    /\ listings = 0

(* ---------------------------------------------------------------------- *)
(* ToDoListAssistant.add_task                                              *)
(* ---------------------------------------------------------------------- *)

\* variant: the id is the count of existing tasks, without the + 1
NewTaskZeroBased(ts, description, due_date, priority) ==
    [id |-> Len(ts), description |-> description, due_date |-> due_date,
     priority |-> priority, status |-> "pending"]

\* the dict built by add_task for a store ts
NewTask(ts, description, due_date, priority) ==
    [id |-> Len(ts) + 1, description |-> description, due_date |-> due_date,
     priority |-> priority, status |-> "pending"]

\* variant: the new task is appended twice
add_task_twice(ts, description, due_date, priority) ==
    [tasks |-> ts \o << [id |-> Len(ts) + 1, description |-> description,
                         due_date |-> due_date, priority |-> priority,
                         status |-> "pending"],
                        [id |-> Len(ts) + 1, description |-> description,
                         due_date |-> due_date, priority |-> priority,
                         status |-> "pending"] >>,
     out |-> << OutLine("added", 0, description, "", priority,
                        "Task added") >>]

\* variant: the new task is inserted at the front of the list
add_task_front(ts, description, due_date, priority) ==
    [tasks |-> << [id |-> Len(ts) + 1, description |-> description,
                   due_date |-> due_date, priority |-> priority,
                   status |-> "pending"] >> \o ts,
     out |-> << OutLine("added", 0, description, "", priority,
                        "Task added") >>]

\* effect of a call add_task(description, due_date, priority) that binds
add_task(ts, description, due_date, priority) ==
    [tasks |-> Append(ts, NewTask(ts, description, due_date, priority)),
     out |-> << OutLine("added", 0, description, "", priority,
                        "Task added") >>]

\* binding of add_task(**d): the TypeError it raises, or NoExc
NoExc == Exc("", "")
AddTaskKeywords == {"description", "due_date", "priority"}
\* variant: add_task(description, ..., **rest) swallows other keywords
BindErrorLenient(d) ==
    IF d["description"] = Absent
    THEN Exc("TypeError",
             "add_task() missing 1 required positional argument: 'description'")
    ELSE NoExc

BindError(d) ==
    LET given == {k \in Keys : d[k] # Absent}
    IN  IF given \ AddTaskKeywords # {}
        THEN Exc("TypeError",
                 "add_task() got an unexpected keyword argument '"
                 \o (CHOOSE k \in given \ AddTaskKeywords : TRUE) \o "'")
        ELSE IF "description" \notin given
        THEN Exc("TypeError",
                 "add_task() missing 1 required positional argument: 'description'")
        ELSE NoExc

(* ---------------------------------------------------------------------- *)
(* ToDoListAssistant.list_tasks                                            *)
(* ---------------------------------------------------------------------- *)

\* variant: undated tasks get the empty string as sentinel
SortKeyEmptySentinel(task) == << PyOr(task.due_date, Str("")).v, task.id >>

\* key=lambda x: (x.get('due_date') or 'z', x['id'])
SortKey(task) == << PyOr(task.due_date, Str("z")).v, task.id >>

\* tuple comparison k1 < k2
KeyLess(k1, k2) ==
    \/ StrLess(k1[1], k2[1])
    \/ k1[1] = k2[1] /\ k1[2] < k2[2]

\* sorted(seq, key=SortKey): stable, ascending
RECURSIVE Insert(_, _)
Insert(x, s) ==
    IF s = << >> THEN << x >>
    ELSE IF KeyLess(SortKey(x), SortKey(s[1])) THEN << x >> \o s
    ELSE << s[1] >> \o Insert(x, Tail(s))

RECURSIVE Sorted(_)
Sorted(s) ==
    IF s = << >> THEN << >>
    ELSE Insert(s[Len(s)], Sorted(SubSeq(s, 1, Len(s) - 1)))

\* the line printed for one task
TaskLine(task) ==
    OutLine("task", task.id, task.description,
            IF Truthy(task.due_date)
            THEN " (Due: " \o Format(task.due_date) \o ")" ELSE "",
            task.priority, "")

\* variant: the empty case prints its notice but does not return
list_tasksNoReturn(ts) ==
    (IF ts = << >>
     THEN << Msg("empty", "Your to-do list is empty!") >> ELSE << >>)
    \o << Msg("header", "--- Your To-Do List ---") >>
    \o [i \in 1..Len(Sorted(ts)) |-> TaskLine(Sorted(ts)[i])]
    \o << Msg("footer", "--------------------------") >>

\* everything list_tasks prints for a store ts
list_tasks(ts) ==
    IF ts = << >>
    THEN << Msg("empty", "Your to-do list is empty!") >>
    ELSE LET s == Sorted(ts)
         IN  << Msg("header", "--- Your To-Do List ---") >>
             \o [i \in 1..Len(s) |-> TaskLine(s[i])]
             \o << Msg("footer", "--------------------------") >>

(* ---------------------------------------------------------------------- *)
(* ToDoListAssistant.run                                                   *)
(* ---------------------------------------------------------------------- *)

\* variant: the comparison without lower()
IsQuitCaseSensitive(line) == Ord(line) \in {Ord("quit"), Ord("exit")}

\* user_input.lower() in ['quit', 'exit']
IsQuit(line) == Lower(Ord(line)) \in {Ord("quit"), Ord("exit")}

\* variant: only OutputParserException is caught
OnExceptionParseOnly(e) ==
    IF e.type = "OutputParserException"
    THEN [pc |-> "input",
          out |-> << Msg("rephrase",
              "I had a little trouble understanding that. Could you please rephrase?") >>]
    ELSE [pc |-> "crashed", out |-> << Msg("traceback", e.msg) >>]

\* variant: a failed turn invokes the chain again with the same text
OnExceptionRetry(e) ==
    IF e.type = "OutputParserException"
    THEN [pc |-> "invoke",
          out |-> << Msg("rephrase",
              "I had a little trouble understanding that. Could you please rephrase?") >>]
    ELSE [pc |-> "invoke",
          out |-> << Msg("unexpected",
                         "An unexpected error occurred: " \o e.msg) >>]

\* variant: the catch-all prints a fixed text, without the exception
OnExceptionNoDiagnostic(e) ==
    IF e.type = "OutputParserException"
    THEN [pc |-> "input",
          out |-> << Msg("rephrase",
              "I had a little trouble understanding that. Could you please rephrase?") >>]
    ELSE [pc |-> "input",
          out |-> << Msg("unexpected", "An unexpected error occurred") >>]

\* the except clauses of the loop body; control returns to the loop head
OnException(e) ==
    IF e.type = "OutputParserException"
    THEN [pc |-> "input",
          out |-> << Msg("rephrase",
              "I had a little trouble understanding that. Could you please rephrase?") >>]
    ELSE [pc |-> "input",
          out |-> << Msg("unexpected",
                         "An unexpected error occurred: " \o e.msg) >>]

\* variant: list_tasks sorts self.tasks in place before printing
DispatchSortInPlace(ts, c) ==
    IF c.t = "dict" /\ c.action = Str("list_tasks")
    THEN [tasks |-> Sorted(ts), out |-> list_tasks(ts), raised |-> NoExc]
    ELSE IF c.t = "dict" /\ c.action = Str("add_task")
            /\ c.parameters.t = "dict" /\ BindError(c.parameters.d) = NoExc
    THEN LET r == add_task(ts, c.parameters.d["description"],
                     GetDefault(c.parameters.d, "due_date", PyNone),
                     GetDefault(c.parameters.d, "priority", Str("medium")))
         IN  [tasks |-> r.tasks, out |-> r.out, raised |-> NoExc]
    ELSE [tasks |-> ts, out |-> << >>, raised |-> NoExc]

\* lines 117-125 for a value c returned by the chain, on store ts
Dispatch(ts, c) ==
    IF c.t # "dict"
    THEN [tasks |-> ts, out |-> << >>,
          raised |-> Exc("AttributeError",
                         "'list' object has no attribute 'get'")]
    ELSE
    LET action == IF c.action = Absent THEN PyNone ELSE c.action
        params == IF c.parameters.t = "absent" THEN DictParams(EmptyDict)
                  ELSE c.parameters
    IN  IF action = Str("add_task")
        THEN IF params.t # "dict"
             THEN [tasks |-> ts, out |-> << >>,
                   raised |-> Exc("TypeError",
                       "add_task() argument after ** must be a mapping, not list")]
             ELSE IF BindError(params.d) # NoExc
             THEN [tasks |-> ts, out |-> << >>,
                   raised |-> BindError(params.d)]
             ELSE LET r == add_task(ts, params.d["description"],
                                GetDefault(params.d, "due_date", PyNone),
                                GetDefault(params.d, "priority", Str("medium")))
                  IN  [tasks |-> r.tasks, out |-> r.out, raised |-> NoExc]
        ELSE IF action = Str("list_tasks")
        THEN [tasks |-> ts, out |-> list_tasks(ts), raised |-> NoExc]
        ELSE IF action = Str("error")
        THEN IF params.t # "dict"
             THEN [tasks |-> ts, out |-> << >>,
                   raised |-> Exc("AttributeError",
                                  "'list' object has no attribute 'get'")]
             ELSE [tasks |-> ts,
                   out |-> << Msg("error",
                       Format(GetDefault(params.d, "message",
                              Str("Sorry, I did not understand that.")))) >>,
                   raised |-> NoExc]
        ELSE [tasks |-> ts, out |-> << >>, raised |-> NoExc]

\* input() returns quit/exit: Goodbye, break
ReadQuit(line) ==
    /\ pc = "input"
    /\ IsQuit(line)
    /\ user_input' = line
    /\ out' = << Msg("goodbye", "Goodbye!") >>
    /\ pc' = "done"
    /\ turns' = turns + 1
    /\ invocations' = 0
    /\ UNCHANGED <<tasks, user_text, cmd, listed, listings>>

\* input() returns any other line: the chain is invoked with it
ReadForward(line) ==
    /\ pc = "input"
    /\ turns < MaxTurns
    /\ ~IsQuit(line)
    /\ user_input' = line
    /\ user_text' = line
    /\ out' = << >>
    /\ pc' = "invoke"
    /\ turns' = turns + 1
    /\ invocations' = 0
    /\ UNCHANGED <<tasks, cmd, listed, listings>>

\* input() raises EOFError
ReadEOF ==
    /\ pc = "input"
    /\ turns < MaxTurns
    /\ LET h == OnException(Exc("EOFError", "EOF when reading a line"))
       IN  /\ pc' = h.pc
           /\ out' = h.out
    /\ turns' = turns + 1
    /\ invocations' = 0
    /\ UNCHANGED <<tasks, user_input, user_text, cmd, listed, listings>>

\* self.chain.invoke raises
OracleRaises(e) ==
    /\ pc = "invoke"
    /\ invocations' = invocations + 1
    /\ LET h == OnException(e)
       IN  /\ pc' = h.pc
           /\ out' = h.out
    /\ UNCHANGED <<tasks, user_input, user_text, cmd, turns, listed, listings>>

\* self.chain.invoke returns c, which is dispatched
OracleReturns(c) ==
    /\ pc = "invoke"
    /\ invocations' = invocations + 1
    /\ cmd' = c
    /\ LET r == Dispatch(tasks, c)
       IN  /\ tasks' = r.tasks
           /\ IF r.raised = NoExc
              THEN /\ pc' = "input"
                   /\ out' = r.out
              ELSE LET h == OnException(r.raised)
                   IN  /\ pc' = h.pc
                       /\ out' = h.out
           /\ IF c.t = "dict" /\ c.action = Str("list_tasks")
              THEN listed' = r.out /\ listings' = listings + 1
              ELSE IF Len(r.tasks) # Len(tasks)
              THEN listed' = << >> /\ listings' = 0
              ELSE UNCHANGED <<listed, listings>>
    /\ UNCHANGED <<user_input, user_text, turns>>

Next ==
    \/ \E line \in Lines : ReadQuit(line)
    \/ \E line \in Lines : ReadForward(line)
    \/ ReadEOF
    \/ \E e \in OracleFailures : OracleRaises(e)
    \/ \E c \in Commands : OracleReturns(c)

Spec == Init /\ [][Next]_vars

(* ---------------------------------------------------------------------- *)
(* Vocabulary of the properties                                            *)
(* ---------------------------------------------------------------------- *)

Rephrase ==
    Msg("rephrase",
        "I had a little trouble understanding that. Could you please rephrase?")

ParseFailure == Exc("OutputParserException", "Invalid json output")

\* cs spells the lower-case word w in some mix of letter cases
SpellsIgnoringCase(cs, w) ==
    /\ Len(cs) = Len(w)
    /\ \A i \in 1..Len(w) : cs[i] = w[i] \/ cs[i] = w[i] - 32

\* the line is quit or exit in any letter case
QuitWord(line) ==
    \/ SpellsIgnoringCase(Ord(line), <<113, 117, 105, 116>>)
    \/ SpellsIgnoringCase(Ord(line), <<101, 120, 105, 116>>)

\* c is an object whose action is a
HasAction(c, a) == c.t = "dict" /\ c.action = Str(a)

\* the description an add_task command carries, Absent if it carries none
DescriptionOf(c) ==
    IF c.parameters.t = "dict" THEN c.parameters.d["description"] ELSE Absent

\* keys of the parameters of c
ParamKeys(c) ==
    IF c.parameters.t = "dict"
    THEN {k \in Keys : c.parameters.d[k] # Absent} ELSE {}

\* the store grew by exactly one task, numbered previous count + 1
GrewByOne ==
    /\ Len(tasks') = Len(tasks) + 1
    /\ SubSeq(tasks', 1, Len(tasks)) = tasks
    /\ tasks'[Len(tasks')].id = Len(tasks) + 1

(* ---------------------------------------------------------------------- *)
(* C1                                                                      *)
(* ---------------------------------------------------------------------- *)

\* C1 as stated: every dispatched add_task command with a non-empty
\* description grows the store by exactly one task whose id is the previous
\* count plus 1.
C1_AddAnyDescribed ==
    [][\A c \in Commands :
         (OracleReturns(c) /\ HasAction(c, "add_task")
            /\ Truthy(DescriptionOf(c)))
         => GrewByOne]_vars

\* C1 amended: every dispatched add_task command whose parameters hold a
\* non-empty description and no key other than description, due_date and
\* priority grows the store by exactly one task whose id is the previous
\* count plus 1.
C1_AddDescribed ==
    [][\A c \in Commands :
         (OracleReturns(c) /\ HasAction(c, "add_task")
            /\ Truthy(DescriptionOf(c))
            /\ ParamKeys(c) \subseteq AddTaskKeywords)
         => GrewByOne]_vars

C1_Witness ==
    /\ pc = "input" /\ invocations = 1
    /\ HasAction(cmd, "add_task") /\ Truthy(DescriptionOf(cmd))
    /\ ParamKeys(cmd) \subseteq AddTaskKeywords
    /\ Len(tasks) = 2 /\ tasks[2].id = 2
    /\ out # << >> /\ out[1].kind = "added"

(* ---------------------------------------------------------------------- *)
(* C2                                                                      *)
(* ---------------------------------------------------------------------- *)

IdsIncreasing(ts) ==
    /\ \A i \in 1..Len(ts) : ts[i].id > 0
    /\ \A i, j \in 1..Len(ts) : i # j => ts[i].id # ts[j].id
    /\ \A i, j \in 1..Len(ts) : i < j => ts[i].id < ts[j].id

\* C2: in every reachable state the stored ids are positive, pairwise
\* distinct and strictly increasing in insertion order, and no step changes
\* the id of a task that is already stored.
C2_IdsStable ==
    /\ []IdsIncreasing(tasks)
    /\ [][\A i \in 1..Len(tasks) :
            i <= Len(tasks') /\ tasks'[i].id = tasks[i].id]_vars

C2_Witness ==
    /\ Len(tasks) = 3
    /\ tasks[1].id = 1 /\ tasks[2].id = 2 /\ tasks[3].id = 3
    /\ turns = 4 /\ pc = "input"

(* ---------------------------------------------------------------------- *)
(* C3                                                                      *)
(* ---------------------------------------------------------------------- *)

ErrorShown(o) ==
    o # << >> /\ o[1].kind \in {"validation", "unexpected", "rephrase"}

\* C3: an add_task command without a description, or with the empty string
\* as description, leaves the store unchanged and shows the user an error;
\* no stored task has an empty description.
C3_EmptyDescriptionRejected ==
    /\ [][\A c \in Commands :
            (OracleReturns(c) /\ HasAction(c, "add_task")
               /\ DescriptionOf(c) \in {Absent, Str("")})
            => (tasks' = tasks /\ ErrorShown(out'))]_vars
    /\ [](\A i \in 1..Len(tasks) : tasks[i].description # Str(""))

(* ---------------------------------------------------------------------- *)
(* C4                                                                      *)
(* ---------------------------------------------------------------------- *)

\* the parsed value is not an object with keys action and parameters
Malformed(c) ==
    c.t # "dict" \/ c.action = Absent \/ c.parameters.t = "absent"

\* C4: oracle output that does not parse, or that is not an object with keys
\* action and parameters, never changes the store and is answered with the
\* rephrase message, the session staying in its loop.
C4_MalformedIsParseError ==
    [][(\/ OracleRaises(ParseFailure)
        \/ \E c \in Commands : Malformed(c) /\ OracleReturns(c))
       => (tasks' = tasks /\ pc' = "input" /\ out' = << Rephrase >>)]_vars

(* ---------------------------------------------------------------------- *)
(* C5                                                                      *)
(* ---------------------------------------------------------------------- *)

KnownActions == {Str("add_task"), Str("list_tasks"), Str("error")}

\* C5: a parsed object without an action, or with an action outside
\* add_task, list_tasks, error, is reported to the user as a failure and
\* does not change the store.
C5_UnknownActionReported ==
    [][\A c \in Commands :
         (OracleReturns(c) /\ c.t = "dict" /\ c.action \notin KnownActions)
         => (tasks' = tasks /\ ErrorShown(out'))]_vars

(* ---------------------------------------------------------------------- *)
(* C6                                                                      *)
(* ---------------------------------------------------------------------- *)

Digit(c) == c - 48
IsDigit(c) == c >= 48 /\ c <= 57

\* the characters have the form YYYY-MM-DD
IsIsoDate(cs) ==
    /\ Len(cs) = 10
    /\ cs[5] = 45 /\ cs[8] = 45
    /\ \A i \in {1, 2, 3, 4, 6, 7, 9, 10} : IsDigit(cs[i])

\* year, month and day of a YYYY-MM-DD string
CalendarDate(s) ==
    LET cs == Ord(s)
    IN  << 1000 * Digit(cs[1]) + 100 * Digit(cs[2]) + 10 * Digit(cs[3])
             + Digit(cs[4]),
           10 * Digit(cs[6]) + Digit(cs[7]),
           10 * Digit(cs[9]) + Digit(cs[10]) >>

DateBefore(d, e) ==
    \/ d[1] < e[1]
    \/ d[1] = e[1] /\ d[2] < e[2]
    \/ d[1] = e[1] /\ d[2] = e[2] /\ d[3] < e[3]

Dated(task) == task.due_date.t = "str"

\* every due date in the store is absent or a YYYY-MM-DD string
DueDatesWellFormed(ts) ==
    \A i \in 1..Len(ts) :
        ts[i].due_date = PyNone
        \/ (Dated(ts[i]) /\ IsIsoDate(Ord(ts[i].due_date.v)))

\* the stored task a rendered line shows
Shown(line) == CHOOSE t \in {tasks[i] : i \in 1..Len(tasks)} : t.id = line.id

\* a precedes b in a rendering that follows the documented order
InListOrder(a, b) ==
    /\ Dated(b) => Dated(a)
    /\ (Dated(a) /\ Dated(b))
         => ~DateBefore(CalendarDate(b.due_date.v),
                        CalendarDate(a.due_date.v))
    /\ (a.due_date = b.due_date) => a.id < b.id

\* the task lines of a rendering
TaskLines(o) == SelectSeq(o, LAMBDA l : l.kind = "task")

\* C6: for every store whose due dates are YYYY-MM-DD strings or absent,
\* list_tasks renders each stored task once, every dated task before every
\* undated one, dated tasks in ascending date order, and tasks with the same
\* due date (or both undated) in ascending id order; a list_tasks command
\* prints exactly that rendering.
C6_ListOrder ==
    /\ []((DueDatesWellFormed(tasks) /\ tasks # << >>) =>
            LET ls == TaskLines(list_tasks(tasks))
            IN  /\ Len(ls) = Len(tasks)
                /\ {ls[i].id : i \in 1..Len(ls)} = 1..Len(tasks)
                /\ \A i, j \in 1..Len(ls) :
                       i < j => InListOrder(Shown(ls[i]), Shown(ls[j])))
    /\ [][\A c \in Commands :
            (OracleReturns(c) /\ HasAction(c, "list_tasks"))
            => out' = list_tasks(tasks)]_vars

C6_Witness ==
    /\ pc = "input" /\ invocations = 1 /\ HasAction(cmd, "list_tasks")
    /\ Len(tasks) = 3
    /\ tasks[1].due_date = PyNone
    /\ tasks[2].due_date = Str("2025-08-18")
    /\ tasks[3].due_date = Str("2024-12-31")
    /\ Len(out) = 5
    /\ out[2].id = 3 /\ out[3].id = 2 /\ out[4].id = 1

(* ---------------------------------------------------------------------- *)
(* C7                                                                      *)
(* ---------------------------------------------------------------------- *)

\* C7: every step that ends a turn whose input was not quit/exit, whatever
\* the turn's outcome, leaves the session waiting for the next line; the
\* loop is left only by a step that reads quit or exit, and the session
\* never dies of an exception.
C7_LoopResumes ==
    [][/\ pc = "invoke" => pc' = "input"
       /\ pc = "input" => pc' \in {"input", "invoke", "done"}
       /\ pc' = "done" => (pc = "input" /\ QuitWord(user_input'))
       /\ pc' # "crashed"]_vars

C7_Witness ==
    /\ pc = "input" /\ invocations = 1 /\ turns = 2
    /\ out # << >> /\ out[1].kind = "unexpected"
    /\ ~QuitWord(user_input)

(* ---------------------------------------------------------------------- *)
(* C8                                                                      *)
(* ---------------------------------------------------------------------- *)

\* C8: a step that reads a line ends the session exactly when the line is
\* quit or exit in some letter case, and then the chain is not invoked and
\* the store and the text last sent to the chain are unchanged; any other
\* line is handed to the chain as it was read.
C8_QuitBeforePipeline ==
    [][(pc = "input" /\ pc' \in {"invoke", "done"}) =>
          /\ QuitWord(user_input') <=> pc' = "done"
          /\ pc' = "done" => /\ tasks' = tasks
                             /\ user_text' = user_text
                             /\ invocations' = 0
          /\ pc' = "invoke" => user_text' = user_input']_vars

C8_Witness ==
    /\ pc = "done" /\ user_input = "QUIT" /\ user_text = "quit "
    /\ invocations = 0 /\ tasks # << >>

(* ---------------------------------------------------------------------- *)
(* C9                                                                      *)
(* ---------------------------------------------------------------------- *)

\* C9: between two reads of the console the chain is invoked at most once,
\* and a step in which the invocation raises returns the session to the
\* console read.
C9_NoRetry ==
    /\ [](invocations <= 1)
    /\ [][(\E e \in OracleFailures : OracleRaises(e)) => pc' = "input"]_vars

C9_Witness ==
    /\ pc = "input" /\ invocations = 1 /\ turns = 2
    /\ out = << Rephrase >>

(* ---------------------------------------------------------------------- *)
(* C10                                                                     *)
(* ---------------------------------------------------------------------- *)

PriorityLevels == {Str("high"), Str("medium"), Str("low")}

\* C10: every stored task has priority high, medium or low, and a task
\* added from parameters without a priority has priority medium.
C10_PriorityLevels ==
    /\ [](\A i \in 1..Len(tasks) : tasks[i].priority \in PriorityLevels)
    /\ [][\A c \in Commands :
            (OracleReturns(c) /\ HasAction(c, "add_task")
               /\ "priority" \notin ParamKeys(c)
               /\ Len(tasks') = Len(tasks) + 1)
            => tasks'[Len(tasks')].priority = Str("medium")]_vars

(* ---------------------------------------------------------------------- *)
(* C11                                                                     *)
(* ---------------------------------------------------------------------- *)

\* C11: when the invocation of the chain raises anything but a parse
\* failure, the turn prints the generic failure message followed by the
\* text of the exception, the store is unchanged and the session waits for
\* the next line.
C11_OracleFailureReported ==
    [][\A e \in OracleFailures :
         (e.type # "OutputParserException" /\ OracleRaises(e))
         => /\ tasks' = tasks
            /\ pc' = "input"
            /\ Len(out') = 1
            /\ out'[1].kind = "unexpected"
            /\ out'[1].text = "An unexpected error occurred: " \o e.msg]_vars

C11_Witness ==
    /\ pc = "input" /\ invocations = 1 /\ tasks # << >>
    /\ out = << Msg("unexpected",
                    "An unexpected error occurred: Request timed out.") >>

(* ---------------------------------------------------------------------- *)
(* C12                                                                     *)
(* ---------------------------------------------------------------------- *)

\* C12: dispatching a list_tasks or an error command leaves the store as it
\* was, and a list_tasks command that follows another one with no add_task
\* in between prints what the earlier one printed.
C12_ReadsLeaveStore ==
    /\ [][\A c \in Commands :
            ((HasAction(c, "list_tasks") \/ HasAction(c, "error"))
                /\ OracleReturns(c))
            => tasks' = tasks]_vars
    /\ [][\A c \in Commands :
            (HasAction(c, "list_tasks") /\ listings > 0 /\ OracleReturns(c))
            => out' = listed]_vars

C12_Witness ==
    /\ pc = "input" /\ invocations = 1 /\ HasAction(cmd, "list_tasks")
    /\ listings = 2 /\ out = listed
    /\ Len(tasks) = 2
    /\ tasks[1].due_date = PyNone /\ tasks[2].due_date = Str("2025-08-18")
    /\ Len(out) = 4 /\ out[2].id = 2 /\ out[3].id = 1

(* ---------------------------------------------------------------------- *)
(* C13                                                                     *)
(* ---------------------------------------------------------------------- *)

IsPrefix(s, t) == Len(s) <= Len(t) /\ SubSeq(t, 1, Len(s)) = s

\* C13: in every step the store before the step is a prefix of the store
\* after it, and every stored task has status pending.
C13_AppendOnly ==
    /\ [][IsPrefix(tasks, tasks')]_vars
    /\ [](\A i \in 1..Len(tasks) : tasks[i].status = "pending")

C13_Witness ==
    /\ pc = "input" /\ turns = 4 /\ Len(tasks) = 3
    /\ HasAction(cmd, "list_tasks") /\ listings = 1
    /\ tasks[1].description = Str("")
    /\ tasks[2].priority = Str("urgent")
    /\ tasks[3].due_date = Str("2024-12-31")
    /\ \A i \in 1..3 : tasks[i].status = "pending"

(* ---------------------------------------------------------------------- *)
(* C14                                                                     *)
(* ---------------------------------------------------------------------- *)

Kinds(o) == {o[i].kind : i \in 1..Len(o)}

\* C14: a list_tasks command on an empty store prints the empty-list notice
\* and no header, task line or footer; on a non-empty store it prints no
\* notice and exactly one task line for each stored task.
C14_EmptyNotice ==
    [][\A c \in Commands :
         (HasAction(c, "list_tasks") /\ OracleReturns(c))
         => IF tasks = << >>
            THEN /\ Kinds(out') = {"empty"}
                 /\ Len(out') = 1
            ELSE /\ "empty" \notin Kinds(out')
                 /\ Len(TaskLines(out')) = Len(tasks)
                 /\ \A i \in 1..Len(tasks) :
                        Cardinality({j \in 1..Len(out') :
                            out'[j].kind = "task"
                            /\ out'[j].id = tasks[i].id}) = 1]_vars

C14_Witness ==
    /\ pc = "input" /\ invocations = 1 /\ HasAction(cmd, "list_tasks")
    /\ tasks = << >> /\ listings = 1
    /\ out = << Msg("empty", "Your to-do list is empty!") >>

(* ---------------------------------------------------------------------- *)
(* C15                                                                     *)
(* ---------------------------------------------------------------------- *)

Fallback == "Sorry, I did not understand that."

\* C15: an error command whose parameters are a mapping, or that has no
\* parameters key, prints one line: the value of parameters.message as it
\* is when that key is present, the generic fallback text when it is not.
C15_ErrorMessage ==
    [][\A c \in Commands :
         (HasAction(c, "error") /\ c.parameters.t \in {"dict", "absent"}
            /\ OracleReturns(c))
         => /\ Len(out') = 1
            /\ out'[1].kind = "error"
            /\ out'[1].text =
                 IF "message" \in ParamKeys(c)
                 THEN c.parameters.d["message"].v ELSE Fallback]_vars

C15_Witness ==
    /\ pc = "input" /\ invocations = 1
    /\ cmd = Object(Str("error"), NoParams)
    /\ out = << Msg("error", Fallback) >>
    /\ tasks # << >>

(* ---------------------------------------------------------------------- *)
(* C16                                                                     *)
(* ---------------------------------------------------------------------- *)

\* C16: an add_task command whose parameters hold a key other than
\* description, due_date and priority adds nothing: the store is unchanged,
\* the turn prints the generic unexpected-error message and the session
\* waits for the next line.
C16_ExtraKeyRejected ==
    [][\A c \in Commands :
         (HasAction(c, "add_task") /\ ParamKeys(c) \ AddTaskKeywords # {}
            /\ OracleReturns(c))
         => /\ tasks' = tasks
            /\ pc' = "input"
            /\ Len(out') = 1
            /\ out'[1].kind = "unexpected"]_vars

C16_Witness ==
    /\ pc = "input" /\ invocations = 1
    /\ HasAction(cmd, "add_task")
    /\ ParamKeys(cmd) = {"description", "tags"}
    /\ Len(tasks) = 1
    /\ out = << Msg("unexpected",
          "An unexpected error occurred: add_task() got an unexpected keyword argument 'tags'") >>

(* ---------------------------------------------------------------------- *)
(* C17                                                                     *)
(* ---------------------------------------------------------------------- *)

\* C17: no step adds more than one task; a step that adds one is the first
\* return of the chain in its turn and returns an add_task command; so
\* after n turns the store holds at most n tasks and no id exceeds n.
C17_OneTaskPerTurn ==
    /\ [][/\ Len(tasks') <= Len(tasks) + 1
          /\ Len(tasks') = Len(tasks) + 1
               => /\ invocations = 0 /\ invocations' = 1
                  /\ turns' = turns
                  /\ HasAction(cmd', "add_task")
                  /\ OracleReturns(cmd')]_vars
    /\ [](/\ Len(tasks) <= turns
          /\ \A i \in 1..Len(tasks) : tasks[i].id <= turns)

C17_Witness ==
    /\ pc = "input" /\ invocations = 1
    /\ turns = 4 /\ Len(tasks) = 4 /\ tasks[4].id = 4
    /\ HasAction(cmd, "add_task")

====
